---- MODULE Spec2Model ----
(***************************************************************************)
(* Model of scripts/connect.cpp: main() opens a DuckDB database handle and *)
(* a connection handle inside one try block, lets both go out of scope,    *)
(* and maps any std::exception thrown on the way to a diagnostic line on   *)
(* the error stream and exit code 1.                                       *)
(*                                                                         *)
(* The program counter pc names the source line about to execute.  The     *)
(* embedded engine is an external collaborator: its two constructors       *)
(* either succeed or throw one of the exception kinds below.  The lock on  *)
(* the database file is modelled as held from the successful open until    *)
(* the owning handle is closed.                                            *)
(***************************************************************************)
EXTENDS Integers, Sequences, FiniteSets, TLC

VARIABLES pc, scope, live, fileLocked, pathWritable, pending, stdoutLines,
          stderrLines, queries, conUsed, retval, exitCode, trace, run, prevExit

vars == <<pc, scope, live, fileLocked, pathWritable, pending, stdoutLines,
          stderrLines, queries, conUsed, retval, exitCode, trace, run, prevExit>>

\* Number of full process runs explored one after the other.
MaxRuns == 2

\* what() texts an exception may carry (the empty text included).
Messages == {"", "Cannot open file"}

----------------------------------------------------------------------------
\* Exception classes the collaborators throw, each with its direct base class.

ExceptionBase(kind) ==
    CASE kind = "IOException"          -> "duckdb::Exception"
      [] kind = "ConnectionException"  -> "duckdb::Exception"
      [] kind = "OutOfMemoryException" -> "duckdb::Exception"
      [] kind = "duckdb::Exception"    -> "std::runtime_error"
      [] kind = "std::runtime_error"   -> "std::exception"
      [] kind = "std::bad_alloc"       -> "std::exception"
      [] OTHER                         -> "none"

RECURSIVE IsA(_, _)
IsA(kind, type) ==
    IF kind = type THEN TRUE
    ELSE IF kind = "none" THEN FALSE
    ELSE IsA(ExceptionBase(kind), type)

\* Kinds a failing database open throws for reasons other than the file.
ResourceErrors == {"OutOfMemoryException", "std::bad_alloc"}

\* Kinds a failing connection open throws.
ConnectionErrors == {"ConnectionException", "std::bad_alloc"}

CatchesRuntimeErrorOnly(kind) == IsA(kind, "std::runtime_error")

CatchesEngineErrorOnly(kind) == IsA(kind, "duckdb::Exception")

\* catch (std::exception &ex)
Catches(kind) == IsA(kind, "std::exception")

ExitStatusAlwaysZero(path) == 0

\* return 1; in the handler, return 0; after the try block
ExitStatus(path) == IF path = "handler" THEN 1 ELSE 0

DiagnosticTwice(what) == << <<"Exception: ", what>>, <<"Exception: ", what>> >>

\* std::cerr << "Exception: " << ex.what() << std::endl;
DiagnosticLines(what) == << <<"Exception: ", what>> >>

HeapDatabase == {"con"}

HeapConnection == {"db"}

\* The objects declared with automatic storage duration in the try block.
AutomaticStorage == {"db", "con"}

DestroyFirstDeclared(s) == s[1]

\* Locals of a block are destroyed in reverse order of construction.
NextToDestroy(s) == s[Len(s)]

HandlerBeforeUnwind(s) == TRUE

\* The handler body runs once the try block's locals have been destroyed.
HandlerMayRun(s) == s = <<>>

QueryReactivated == TRUE

\* Lines 11-21, the query and the printing of its rows, are comments.
QueryActive == FALSE

NextLineRetry(line) ==
    CASE line = "L8"  -> "L9"
      [] line = "L9"  -> "L11"
      [] line = "L11" -> "L8"
      [] line = "L22" -> "L28"

\* The statement following each statement of the straight-line path.
NextLine(line) ==
    CASE line = "L8"  -> "L9"
      [] line = "L9"  -> "L11"
      [] line = "L11" -> "L22"
      [] line = "L22" -> "L28"

----------------------------------------------------------------------------
\* Helpers

Remove(s, obj) == SelectSeq(s, LAMBDA x : x # obj)

Declare(s, obj) == IF obj \in AutomaticStorage THEN Append(s, obj) ELSE s

ReleaseEvent(obj) == IF obj = "db" THEN "rel_db" ELSE "rel_con"

\* The file can be opened: the path is writable and no handle holds its lock.
Openable == pathWritable /\ ~fileLocked

\* throw: the handler is looked up first; without one the process is
\* terminated, with one the stack is unwound up to the try block.
Raise(kind, what, event) ==
    /\ pending' = <<[kind |-> kind, what |-> what]>>
    /\ trace' = trace \o <<event, "throw">>
    /\ pc' = IF Catches(kind) THEN "unwind" ELSE "terminated"

----------------------------------------------------------------------------
Init ==
    /\ pc = "L6"
    /\ scope = <<>>
    /\ live = {}
    /\ fileLocked = FALSE
    /\ pathWritable \in BOOLEAN
    /\ pending = <<>>
    /\ stdoutLines = <<>>
    /\ stderrLines = <<>>
    /\ queries = 0
    /\ conUsed = FALSE
    /\ retval = <<>>
    /\ exitCode = <<>>
    /\ trace = <<>>
    /\ run = 1
    /\ prevExit = <<>>

\* int main() { try {
EnterTry ==
    /\ pc = "L6"
    /\ pc' = "L8"
    /\ UNCHANGED <<scope, live, fileLocked, pathWritable, pending, stdoutLines,
                   stderrLines, queries, conUsed, retval, exitCode, trace, run,
                   prevExit>>

\* DuckDB db("my_duck_database.db");
OpenDatabase ==
    /\ pc = "L8"
    /\ \/ /\ Openable
          /\ live' = live \cup {"db"}
          /\ fileLocked' = TRUE
          /\ scope' = Declare(scope, "db")
          /\ trace' = trace \o <<"open_db", "acq_db">>
          /\ pc' = NextLine("L8")
          /\ UNCHANGED pending
       \/ /\ \E kind \in ResourceErrors \cup {"IOException"}, what \in Messages :
                /\ (kind = "IOException") <=> ~Openable
                /\ Raise(kind, what, "open_db")
          /\ UNCHANGED <<live, fileLocked, scope>>
    /\ UNCHANGED <<pathWritable, stdoutLines, stderrLines, queries, conUsed,
                   retval, exitCode, run, prevExit>>

\* Connection con(db);
OpenConnection ==
    /\ pc = "L9"
    /\ \/ /\ live' = live \cup {"con"}
          /\ scope' = Declare(scope, "con")
          /\ trace' = trace \o <<"open_con", "acq_con">>
          /\ pc' = NextLine("L9")
          /\ UNCHANGED pending
       \/ /\ \E kind \in ConnectionErrors, what \in Messages :
                Raise(kind, what, "open_con")
          /\ UNCHANGED <<live, scope>>
    /\ UNCHANGED <<fileLocked, pathWritable, stdoutLines, stderrLines, queries,
                   conUsed, retval, exitCode, run, prevExit>>

\* Lines 11-21: con.Query(...), result->HasError(), the row loop.
QueryBlock ==
    /\ pc = "L11"
    /\ IF QueryActive
       THEN /\ queries' = queries + 1
            /\ conUsed' = TRUE
            /\ trace' = Append(trace, "use_con")
            /\ \/ /\ stderrLines' = Append(stderrLines, <<"Query failed: ", "error">>)
                  /\ retval' = <<1>>
                  /\ pc' = "leave"
                  /\ UNCHANGED stdoutLines
               \/ /\ stdoutLines' = Append(stdoutLines, <<"Tables in database:">>)
                  /\ pc' = NextLine("L11")
                  /\ UNCHANGED <<stderrLines, retval>>
       ELSE /\ pc' = NextLine("L11")
            /\ UNCHANGED <<queries, conUsed, trace, stderrLines, stdoutLines, retval>>
    /\ UNCHANGED <<scope, live, fileLocked, pathWritable, pending, exitCode,
                   run, prevExit>>

\* ~Connection() / ~DuckDB(): one local goes out of scope, at the closing
\* brace of the try block, during stack unwinding, or on a return.
Destroy ==
    /\ pc \in {"L22", "unwind", "leave"}
    /\ scope # <<>>
    /\ LET obj == NextToDestroy(scope) IN
          /\ live' = live \ {obj}
          /\ fileLocked' = IF obj = "db" THEN FALSE ELSE fileLocked
          /\ scope' = Remove(scope, obj)
          /\ trace' = Append(trace, ReleaseEvent(obj))
    /\ UNCHANGED <<pc, pathWritable, pending, stdoutLines, stderrLines, queries,
                   conUsed, retval, exitCode, run, prevExit>>

\* } of the try block, no exception: control continues after the handler.
LeaveTry ==
    /\ pc = "L22"
    /\ scope = <<>>
    /\ pc' = NextLine("L22")
    /\ UNCHANGED <<scope, live, fileLocked, pathWritable, pending, stdoutLines,
                   stderrLines, queries, conUsed, retval, exitCode, trace, run,
                   prevExit>>

\* catch (std::exception &ex) {
EnterHandler ==
    /\ pc = "unwind"
    /\ HandlerMayRun(scope)
    /\ pc' = "L24"
    /\ trace' = Append(trace, "catch")
    /\ UNCHANGED <<scope, live, fileLocked, pathWritable, pending, stdoutLines,
                   stderrLines, queries, conUsed, retval, exitCode, run,
                   prevExit>>

\* std::cerr << "Exception: " << ex.what() << std::endl;
WriteDiagnostic ==
    /\ pc = "L24"
    /\ stderrLines' = stderrLines \o DiagnosticLines(pending[1].what)
    /\ pc' = "L25"
    /\ trace' = Append(trace, "write")
    /\ UNCHANGED <<scope, live, fileLocked, pathWritable, pending, stdoutLines,
                   queries, conUsed, retval, exitCode, run, prevExit>>

\* return 1;
ReturnFailure ==
    /\ pc = "L25"
    /\ retval' = <<ExitStatus("handler")>>
    /\ pc' = "leave"
    /\ UNCHANGED <<scope, live, fileLocked, pathWritable, pending, stdoutLines,
                   stderrLines, queries, conUsed, exitCode, trace, run, prevExit>>

\* return 0;
ReturnSuccess ==
    /\ pc = "L28"
    /\ retval' = <<ExitStatus("normal")>>
    /\ pc' = "leave"
    /\ UNCHANGED <<scope, live, fileLocked, pathWritable, pending, stdoutLines,
                   stderrLines, queries, conUsed, exitCode, trace, run, prevExit>>

\* } of main: the process ends with the returned value as its exit code.
Exit ==
    /\ pc = "leave"
    /\ scope = <<>>
    /\ exitCode' = retval
    /\ pc' = "exited"
    /\ trace' = Append(trace, "exit")
    /\ UNCHANGED <<scope, live, fileLocked, pathWritable, pending, stdoutLines,
                   stderrLines, queries, conUsed, retval, run, prevExit>>

\* The program is started again on the same path after a run has ended.
StartRun ==
    /\ pc = "exited"
    /\ run < MaxRuns
    /\ run' = run + 1
    /\ prevExit' = Append(prevExit, exitCode[1])
    /\ pc' = "L6"
    /\ scope' = <<>>
    /\ live' = {}
    /\ pending' = <<>>
    /\ stdoutLines' = <<>>
    /\ stderrLines' = <<>>
    /\ queries' = 0
    /\ conUsed' = FALSE
    /\ retval' = <<>>
    /\ exitCode' = <<>>
    /\ trace' = <<>>
    /\ UNCHANGED <<fileLocked, pathWritable>>

\* The steps of main, which run one after the other without suspension.
MainStep ==
    \/ EnterTry
    \/ OpenDatabase
    \/ OpenConnection
    \/ QueryBlock
    \/ Destroy
    \/ LeaveTry
    \/ EnterHandler
    \/ WriteDiagnostic
    \/ ReturnFailure
    \/ ReturnSuccess
    \/ Exit

Next ==
    \/ EnterTry
    \/ OpenDatabase
    \/ OpenConnection
    \/ QueryBlock
    \/ Destroy
    \/ LeaveTry
    \/ EnterHandler
    \/ WriteDiagnostic
    \/ ReturnFailure
    \/ ReturnSuccess
    \/ Exit
    \/ StartRun

Spec == Init /\ [][Next]_vars

\* main is single-threaded and synchronous: an enabled step is taken.
LiveSpec == Init /\ [][Next]_vars /\ WF_vars(MainStep)

----------------------------------------------------------------------------
\* Vocabulary of the properties

Pos(ev) == {i \in DOMAIN trace : trace[i] = ev}

Count(ev) == Cardinality(Pos(ev))

Occurred(ev) == Pos(ev) # {}

Thrown == pending # <<>>

ConnectionEvents == {"open_con", "acq_con", "use_con", "rel_con"}

AcquisitionEvents == {"open_db", "acq_db", "open_con", "acq_con", "use_con"}

\* On the way to, inside or past the handler.
ErrorPath == {"unwind", "L24", "L25", "leave", "exited"}

OpenDatabaseFailed == Occurred("throw") /\ ~Occurred("acq_db")

OpenConnectionFailed == Occurred("throw") /\ Occurred("open_con")

\* Position of a step in the straight-line order of main (0: not ranked).
Rank(ev) ==
    CASE ev = "open_db"  -> 1
      [] ev = "open_con" -> 2
      [] ev = "rel_con"  -> 3
      [] ev = "rel_db"   -> 4
      [] ev = "exit"     -> 5
      [] OTHER           -> 0

\* C1: on every exit path every acquired handle has been released before the
\* exit code is returned, the connection is released before the database, and
\* the connection is neither used nor released once the database is released.
C1_ReleaseReverseOrder ==
    /\ pc \in {"L28", "exited"} =>
          /\ live = {}
          /\ Count("acq_db") = Count("rel_db")
          /\ Count("acq_con") = Count("rel_con")
    /\ \A i \in Pos("rel_db") : \A j \in DOMAIN trace :
          j > i => trace[j] \notin ConnectionEvents
    /\ \A i \in Pos("exit") : \A j \in DOMAIN trace :
          trace[j] \in {"rel_db", "rel_con"} => j < i
    /\ (Occurred("acq_con") /\ Occurred("rel_db")) =>
          \E i \in Pos("rel_con") : \E j \in Pos("rel_db") : i < j

C1_Witness ==
    /\ pc = "exited"
    /\ Occurred("acq_db") /\ Occurred("acq_con")
    /\ Occurred("rel_con") /\ Occurred("rel_db")

\* C2: an error thrown by open database or open connection always reaches the
\* handler: a line beginning with "Exception: " is written to the error stream
\* and the run ends with exit code 1; the process is never terminated by an
\* uncaught error and an error never lets the straight-line path continue.
C2_ErrorReportedExitOne ==
    /\ pc # "terminated"
    /\ Thrown => pc \in ErrorPath
    /\ (Thrown /\ pc = "exited") =>
          /\ exitCode = <<1>>
          /\ stderrLines # <<>>
          /\ \A i \in DOMAIN stderrLines : stderrLines[i][1] = "Exception: "

C2_Witness ==
    /\ pc = "exited"
    /\ Thrown
    /\ pending[1].kind = "std::bad_alloc"
    /\ exitCode = <<1>>
    /\ stderrLines # <<>>

\* C3: when both opens succeed the run ends with exit code 0 and an empty
\* error stream; the error stream is non-empty only in runs that end with
\* exit code 1.
C3_SuccessExitZeroSilent ==
    /\ (pc = "exited" /\ Occurred("acq_db") /\ Occurred("acq_con")) =>
          exitCode = <<0>> /\ stderrLines = <<>>
    /\ stderrLines # <<>> =>
          /\ pc \in {"L25", "leave", "exited"}
          /\ retval \in {<<>>, <<1>>}
          /\ pc = "exited" => exitCode = <<1>>

C3_Witness ==
    /\ pc = "exited"
    /\ Occurred("acq_db") /\ Occurred("acq_con")
    /\ exitCode = <<0>>
    /\ stderrLines = <<>>

\* C4: whenever the connection handle is live its database handle is live;
\* the connection is acquired only after the database was acquired and before
\* it is released, and it is released before the database is.
C4_ConnectionNestedInDatabase ==
    /\ "con" \in live => "db" \in live
    /\ \A j \in Pos("acq_con") :
          /\ \E i \in Pos("acq_db") : i < j
          /\ \A i \in Pos("rel_db") : j < i
    /\ \A j \in Pos("rel_con") : \A i \in Pos("rel_db") : j < i

C4_Witness ==
    /\ live = {"db"}
    /\ Occurred("acq_con")
    /\ Occurred("rel_con")

\* C5: in a run at most one error is thrown and caught and at most one
\* diagnostic line is written; after the throw no acquisition step follows,
\* and a run in which an error was thrown ends caught once, with one
\* diagnostic line and exit code 1.
C5_CaughtOnceNoRecovery ==
    /\ Count("throw") <= 1
    /\ Count("catch") <= 1
    /\ Len(stderrLines) <= 1
    /\ \A i \in Pos("throw") : \A j \in DOMAIN trace :
          j > i => trace[j] \notin AcquisitionEvents
    /\ (Thrown /\ pc = "exited") =>
          /\ Count("catch") = 1
          /\ Len(stderrLines) = 1
          /\ exitCode = <<1>>

C5_Witness ==
    /\ pc = "exited"
    /\ Thrown
    /\ Count("catch") = 1
    /\ Len(stderrLines) = 1

\* C6: when open database fails the error goes to the handler: open
\* connection is not attempted, no handle is live, no handle is released,
\* and the run ends with exit code 1.
C6_OpenDatabaseFailurePropagates ==
    OpenDatabaseFailed =>
       /\ pc \in ErrorPath
       /\ ~Occurred("open_con")
       /\ live = {}
       /\ ~Occurred("rel_db") /\ ~Occurred("rel_con")
       /\ pc = "exited" => exitCode = <<1>>

C6_Witness ==
    /\ OpenDatabaseFailed
    /\ pc = "exited"
    /\ exitCode = <<1>>

LinearControlFlow ==
    /\ \A i \in DOMAIN trace : \A j \in DOMAIN trace :
          (i < j /\ Rank(trace[i]) > 0 /\ Rank(trace[j]) > 0) =>
              Rank(trace[i]) < Rank(trace[j])
    /\ \A i \in Pos("open_db") :
          i < Len(trace) /\ trace[i + 1] \in {"acq_db", "throw"}
    /\ \A i \in Pos("open_con") :
          i < Len(trace) /\ trace[i + 1] \in {"acq_con", "throw"}
    /\ exitCode \in {<<>>, <<0>>, <<1>>}
    /\ pc = "exited" => exitCode \in {<<0>>, <<1>>}

\* C8: control flow is linear (open database, open connection, release of the
\* handles, exit code, each at most once and in that order, each step
\* completing or throwing before the next), and every run eventually ends
\* with exit code 0 or 1.
C8_LinearAndTerminates ==
    /\ []LinearControlFlow
    /\ [](pc # "exited" => <>(pc = "exited" /\ exitCode \in {<<0>>, <<1>>}))

C8_Witness ==
    /\ pc = "exited"
    /\ Occurred("open_db") /\ Occurred("open_con")
    /\ Occurred("rel_con") /\ Occurred("rel_db")
    /\ run = 2

\* C9: no query is submitted, nothing is written to standard output and the
\* connection is not used between its acquisition and its release; exit code
\* 1 is returned only after an error was thrown and caught.
C9_OnlyTwoConstructionCalls ==
    /\ queries = 0
    /\ stdoutLines = <<>>
    /\ ~conUsed
    /\ \A i \in Pos("acq_con") : i < Len(trace) => trace[i + 1] = "rel_con"
    /\ retval = <<1>> => (Thrown /\ Occurred("catch"))
    /\ exitCode = <<1>> => (Thrown /\ Occurred("catch"))

C9_Witness ==
    /\ pc = "exited"
    /\ Occurred("acq_con")
    /\ Occurred("rel_con")
    /\ queries = 0

\* C10: while the handler body executes and afterwards no handle is live and
\* the file is unlocked; when open connection failed the database handle was
\* released before the error was caught and the diagnostic written.
C10_ReleasedBeforeHandler ==
    /\ (pc \in {"L24", "L25"} \/ (Thrown /\ pc \in {"leave", "exited"})) =>
          (live = {} /\ ~fileLocked)
    /\ (OpenConnectionFailed /\ Occurred("catch")) =>
          \E i \in Pos("rel_db") : \A j \in Pos("catch") \cup Pos("write") : i < j

C10_Witness ==
    /\ pc = "L24"
    /\ OpenConnectionFailed
    /\ Occurred("rel_db")
    /\ live = {}

====
